---- MODULE Spec2Model ----
(***************************************************************************)
(* SDX image utilities (src/sdx.py): a facade over an image codec          *)
(* (cv.imread / cv.imwrite / cv.cvtColor), an array library (numpy) and a  *)
(* plotting surface (matplotlib).                                          *)
(*                                                                         *)
(* The module itself holds no state.  The state below is the world its     *)
(* functions act on: the caller's arrays (with object identity), the image *)
(* files, and what the most recent call returned, displayed and printed.   *)
(***************************************************************************)
EXTENDS Integers, Sequences, FiniteSets, TLC

VARIABLES
    heap,     \* the caller's arrays, by object identity (index = id)
    fs,       \* the image files: path -> file
    call,     \* the most recent call: the function and its arguments
    ret,      \* what the most recent call returned or raised
    shown,    \* the figure the most recent call presented (plt.show)
    printed,  \* the lines the most recent call printed
    rt        \* history: position in a load / save / load sequence

vars == <<heap, fs, call, ret, shown, printed, rt>>

(***************************************************************************)
(* Bounds of the model.                                                    *)
(***************************************************************************)
MaxArrays == 2      \* arrays alive at once
MaxImages == 2      \* longest image list handed to show_multiple

(***************************************************************************)
(* Arrays.  shape is <<h, w>> or <<h, w, c>>; data is the flattened        *)
(* (row-major, channel-last) sample sequence; dtype is the element type.   *)
(***************************************************************************)
Arr(shape, dtype, data) == [shape |-> shape, dtype |-> dtype, data |-> data]

NoArray == Arr(<<>>, "none", <<>>)

Ndim(a) == Len(a.shape)

Size(a) == Len(a.data)

Channels(a) == IF Ndim(a) = 3 THEN a.shape[3] ELSE 1

IsColor3(a) == Ndim(a) = 3 /\ a.shape[3] = 3

RECURSIVE SeqMin(_), SeqMax(_), SeqSum(_)
SeqMin(s) ==
    IF Len(s) = 1 THEN s[1]
    ELSE LET m == SeqMin(Tail(s)) IN IF s[1] < m THEN s[1] ELSE m

SeqMax(s) ==
    IF Len(s) = 1 THEN s[1]
    ELSE LET m == SeqMax(Tail(s)) IN IF s[1] > m THEN s[1] ELSE m

SeqSum(s) == IF s = <<>> THEN 0 ELSE s[1] + SeqSum(Tail(s))

(***************************************************************************)
(* cv.cvtColor.  COLOR_BGR2RGB and COLOR_RGB2BGR are the same conversion:  *)
(* the first and third sample of every pixel change places.  The result is *)
(* a new array.                                                            *)
(***************************************************************************)
\* A reordering that is not its own inverse: every channel moves one place.
RotateChannels(a) ==
    Arr(a.shape, a.dtype,
        [i \in 1..Size(a) |->
            LET k == (i - 1) % 3 IN a.data[i - k + ((k + 1) % 3)]])

SwapRB(a) ==
    Arr(a.shape, a.dtype,
        [i \in 1..Size(a) |->
            LET k == (i - 1) % 3 IN a.data[i - k + (2 - k)]])

(***************************************************************************)
(* OpenCV's fixed-point luminance of one pixel, given red, green, blue.    *)
(* 8-bit samples use 15-bit weights, 16-bit samples 14-bit weights.        *)
(***************************************************************************)
Luma(r, g, b, dtype) ==
    IF dtype = "uint8"
    THEN (r * 9798 + g * 19235 + b * 3735 + 16384) \div 32768
    ELSE (r * 4899 + g * 9617 + b * 1868 + 8192) \div 16384

\* cv.cvtColor(img, cv.COLOR_RGB2GRAY): a new 2-dimensional array.
CvtRGB2GRAY(a) ==
    LET c == Channels(a)
        n == a.shape[1] * a.shape[2]
    IN  Arr(<<a.shape[1], a.shape[2]>>, a.dtype,
            [p \in 1..n |->
                Luma(a.data[(p - 1) * c + 1], a.data[(p - 1) * c + 2],
                     a.data[(p - 1) * c + 3], a.dtype)])

\* The codec's own gray conversion of a file in native (BGR) order.
CvtBGR2GRAY(a) == CvtRGB2GRAY(SwapRB(a))

(***************************************************************************)
(* The image codec (external): files and cv.imread / cv.imwrite.  A file   *)
(* of a lossless format holds an array in the codec's native channel order *)
(* (blue, green, red).                                                     *)
(***************************************************************************)
IMREAD_UNCHANGED == -1
IMREAD_GRAYSCALE == 0
IMREAD_COLOR == 1

Flags == {IMREAD_UNCHANGED, IMREAD_GRAYSCALE, IMREAD_COLOR}

File(a) == [exists |-> TRUE, img |-> a]

NoFile == [exists |-> FALSE, img |-> NoArray]

\* Paths the caller names.  The second lies in a directory that does not
\* exist: nothing can be read from it or written to it.
Paths == {"img.png", "nodir/img.png"}

Writable(path) == path = "img.png"

\* 16-bit samples reduced to 8 bits (the high byte).
To8Bit(a) ==
    IF a.dtype = "uint16"
    THEN Arr(a.shape, "uint8", [i \in 1..Size(a) |-> a.data[i] \div 256])
    ELSE a

\* A single-channel array replicated into three channels.
GrayToBGR(a) ==
    Arr(<<a.shape[1], a.shape[2], 3>>, a.dtype,
        [i \in 1..(3 * Size(a)) |-> a.data[((i - 1) \div 3) + 1]])

\* cv.imread(filename, flags): the decoded array, or NoArray (None).
Imread(f, filename, flags) ==
    LET file == f[filename] IN
    IF ~file.exists THEN NoArray
    ELSE IF flags = IMREAD_UNCHANGED THEN file.img
    ELSE LET a == To8Bit(file.img) IN
         IF flags = IMREAD_COLOR
         THEN (IF Ndim(a) = 2 THEN GrayToBGR(a) ELSE a)
         ELSE (IF Ndim(a) = 3 THEN CvtBGR2GRAY(a) ELSE a)

\* cv.imwrite(filename, img): whether the write succeeded, and the files after.
Imwrite(f, filename, img) ==
    IF Writable(filename)
    THEN [ok |-> TRUE, fs |-> [f EXCEPT ![filename] = File(img)]]
    ELSE [ok |-> FALSE, fs |-> f]

(***************************************************************************)
(* Outcomes of a call: the arrays and files after it, what it returned or  *)
(* raised, the figure it presented and the lines it printed.               *)
(***************************************************************************)
NoFigure == [axes |-> <<>>, figsize |-> <<>>, tight |-> FALSE]

NoExc == [type |-> "", msg |-> <<>>]

Returned(op, id, val) ==
    [op |-> op, status |-> "ok", id |-> id, val |-> val, exc |-> NoExc]

Raised(op, type, msg) ==
    [op |-> op, status |-> "raise", id |-> 0, val |-> <<>>,
     exc |-> [type |-> type, msg |-> msg]]

Outcome(h, f, r, s, p) ==
    [heap |-> h, fs |-> f, ret |-> r, shown |-> s, printed |-> p]

\* A new array object: its id is the next free index.
New(h, a) == Append(h, a)

(***************************************************************************)
(* cv_imread (lines 14-38) and cv_grayread (lines 41-51).                  *)
(***************************************************************************)
\* The error raised without the file's name in its message.
cv_imread_anonymous(h, f, filename, flags) ==
    LET img == Imread(f, filename, flags) IN
    IF img = NoArray
    THEN Outcome(h, f,
            Raised("cv_imread", "FileNotFoundError", <<"Could not read image">>),
            NoFigure, <<>>)
    ELSE LET out == IF Len(img.shape) = 3 /\ img.shape[3] = 3
                    THEN SwapRB(img) ELSE img
         IN  Outcome(New(h, out), f,
                Returned("cv_imread", Len(h) + 1, <<>>), NoFigure, <<>>)

cv_imread(h, f, filename, flags) ==
    LET img == Imread(f, filename, flags) IN
    IF img = NoArray
    THEN Outcome(h, f,
            Raised("cv_imread", "FileNotFoundError",
                   <<"Could not read image: ", filename>>),
            NoFigure, <<>>)
    ELSE LET out == IF Len(img.shape) = 3 /\ img.shape[3] = 3
                    THEN SwapRB(img) ELSE img
         IN  Outcome(New(h, out), f,
                Returned("cv_imread", Len(h) + 1, <<>>), NoFigure, <<>>)

cv_grayread(h, f, filename) ==
    LET o == cv_imread(h, f, filename, IMREAD_GRAYSCALE)
    IN  [o EXCEPT !.ret.op = "cv_grayread"]

(***************************************************************************)
(* cv_imwrite (lines 80-95).  The reordered array is a temporary of the    *)
(* call; the caller's array is handed to the codec only when it is not a   *)
(* three-channel one.                                                      *)
(***************************************************************************)
\* The array handed to the codec as it is, in RGB order.
EncoderInputAsIs(img) == img

EncoderInput(img) ==
    IF Len(img.shape) = 3 /\ img.shape[3] = 3 THEN SwapRB(img) ELSE img

cv_imwrite(h, f, filename, id) ==
    LET w == Imwrite(f, filename, EncoderInput(h[id])) IN
    Outcome(h, w.fs, Returned("cv_imwrite", 0, w.ok), NoFigure, <<>>)

(***************************************************************************)
(* bgr2gray (lines 98-113) and rgb2gray (lines 116-126).                   *)
(***************************************************************************)
\* A 2-dimensional input answered with a copy of it.
bgr2gray_copy(h, f, id) ==
    IF Len(h[id].shape) = 2
    THEN Outcome(New(h, h[id]), f,
            Returned("bgr2gray", Len(h) + 1, <<>>), NoFigure, <<>>)
    ELSE Outcome(New(h, CvtRGB2GRAY(h[id])), f,
            Returned("bgr2gray", Len(h) + 1, <<>>), NoFigure, <<>>)

bgr2gray(h, f, id) ==
    IF Len(h[id].shape) = 2
    THEN Outcome(h, f, Returned("bgr2gray", id, <<>>), NoFigure, <<>>)
    ELSE Outcome(New(h, CvtRGB2GRAY(h[id])), f,
            Returned("bgr2gray", Len(h) + 1, <<>>), NoFigure, <<>>)

rgb2gray(h, f, id) ==
    LET o == bgr2gray(h, f, id) IN [o EXCEPT !.ret.op = "rgb2gray"]

(***************************************************************************)
(* normalize_image (lines 160-173).                                        *)
(*                                                                         *)
(* The samples are integers x with lo <= x <= hi, converted exactly to     *)
(* doubles.  For hi > lo the double computation ((x - lo) / (hi - lo)) *   *)
(* 255, truncated, equals floor(255 * (x - lo) / (hi - lo)): when that     *)
(* quotient is not an integer it is at least 1 / (hi - lo) away from one,  *)
(* far more than the rounding error; when it is an integer t, the ratio    *)
(* equals t / 255, and fl(fl(t / 255) * 255) = t for every t in 0..255.    *)
(* For hi = lo every sample is 0.0 / 0.0, a NaN (numpy warns, it does not  *)
(* raise), and the cast of a NaN to uint8 is undefined: `nan` gives the    *)
(* value each sample's cast produces.  The conversion loop runs a vector   *)
(* body and a scalar tail, which need not agree on a NaN: the values are   *)
(* one value up to some position and one value after it.                   *)
(***************************************************************************)
NanCastValues == {0, 255}

NanCastResults(n) ==
    {[i \in 1..n |-> IF i <= k THEN v ELSE w] :
        k \in 1..n, v \in NanCastValues, w \in NanCastValues}

\* astype(np.uint8) of an integral double.
AsUint8(v) == v % 256

\* The samples scaled by 256: the maximum leaves the 8-bit range.
ScaleSample256(x, lo, hi) == AsUint8(((x - lo) * 256) \div (hi - lo))

ScaleSample(x, lo, hi) == AsUint8(((x - lo) * 255) \div (hi - lo))

NormalizedData(a, nan) ==
    LET lo == SeqMin(a.data)
        hi == SeqMax(a.data)
    IN  [i \in 1..Size(a) |->
            IF hi = lo THEN nan[i] ELSE ScaleSample(a.data[i], lo, hi)]

\* The result written over the input.
NormalizedInPlace(h, id, a) == [heap |-> [h EXCEPT ![id] = a], id |-> id]

\* Where normalize_image leaves its result: astype(float) copies the input,
\* and every later step makes a new array.
NormalizedInto(h, id, a) == [heap |-> New(h, a), id |-> Len(h) + 1]

\* A constant input refused.
normalize_image_guarded(h, f, id, nan) ==
    IF SeqMin(h[id].data) = SeqMax(h[id].data)
    THEN Outcome(h, f,
            Raised("normalize_image", "ValueError", <<"constant image">>),
            NoFigure, <<>>)
    ELSE Outcome(New(h, Arr(h[id].shape, "uint8", NormalizedData(h[id], nan))),
            f, Returned("normalize_image", Len(h) + 1, <<>>), NoFigure, <<>>)

normalize_image(h, f, id, nan) ==
    LET res == Arr(h[id].shape, "uint8", NormalizedData(h[id], nan))
        put == NormalizedInto(h, id, res)
    IN  Outcome(put.heap, f, Returned("normalize_image", put.id, <<>>),
                NoFigure, <<>>)

(***************************************************************************)
(* get_image_stats (lines 176-193) and print_image_info (lines 196-211).   *)
(* mean and std are given by their exact values: mean = num / den, and     *)
(* std = sqrt(num / den).                                                  *)
(***************************************************************************)
Mean(a) == [num |-> SeqSum(a.data), den |-> Size(a)]

Std(a) ==
    LET n == Size(a)
        s == SeqSum(a.data)
        q == SeqSum([i \in 1..n |-> a.data[i] * a.data[i]])
    IN  [sqrt |-> TRUE, num |-> n * q - s * s, den |-> n * n]

Stats(a) ==
    [shape |-> a.shape, dtype |-> a.dtype, min |-> SeqMin(a.data),
     max |-> SeqMax(a.data), mean |-> Mean(a), std |-> Std(a)]

get_image_stats(h, f, id) ==
    Outcome(h, f, Returned("get_image_stats", 0, Stats(h[id])), NoFigure, <<>>)

\* The format specification ':.2f' applied to a value.
Fmt2f(v) == [fmt |-> ".2f", value |-> v]

print_image_info(h, f, id, name) ==
    LET stats == get_image_stats(h, f, id).ret.val IN
    Outcome(h, f, Returned("print_image_info", 0, <<>>), NoFigure,
        << <<name, " Information:">>,
           <<"  Shape: ", stats.shape>>,
           <<"  Data type: ", stats.dtype>>,
           <<"  Min value: ", stats.min>>,
           <<"  Max value: ", stats.max>>,
           <<"  Mean value: ", Fmt2f(stats.mean)>>,
           <<"  Std deviation: ", Fmt2f(stats.std)>> >>)

(***************************************************************************)
(* create_histogram (lines 216-228) and show_histogram (lines 231-246).    *)
(* np.histogram over range (0, 256): a sample outside [0, 256] is dropped; *)
(* the last bucket is closed on the right.                                 *)
(***************************************************************************)
\* The range taken half-open: a sample on the last edge is dropped.
InRangeHalfOpen(x) == 0 <= x /\ x < 256

InRange(x) == 0 <= x /\ x <= 256

Bucket(x, bins) ==
    LET j == (x * bins) \div 256 IN IF j >= bins THEN bins ELSE j + 1

\* The counts, kept for the buckets that are not empty (every other bucket
\* of 1..bins counts 0), and the bins + 1 equally spaced edges from 0 to 256.
Histogram(data, bins) ==
    LET kept == {i \in 1..Len(data) : InRange(data[i])}
        hit == {Bucket(data[i], bins) : i \in kept}
    IN  [bins |-> bins,
         hist |-> [j \in hit |->
                    Cardinality({i \in kept : Bucket(data[i], bins) = j})],
         edges |-> [first |-> 0, last |-> 256, count |-> bins + 1]]

create_histogram(h, f, id, bins) ==
    Outcome(h, f,
        Returned("create_histogram", 0, Histogram(h[id].data, bins)),
        NoFigure, <<>>)

show_histogram(h, f, id, bins, title) ==
    Outcome(h, f, Returned("show_histogram", 0, <<>>),
        [figsize |-> <<10, 4>>, tight |-> FALSE,
         axes |-> << [kind |-> "hist",
                      bars |-> Histogram(h[id].data, bins).hist,
                      color |-> "gray", xlabel |-> "Pixel Value",
                      ylabel |-> "Frequency", title |-> title,
                      grid |-> TRUE, axis |-> "on"] >>],
        <<>>)

(***************************************************************************)
(* Display.  A figure is a row of axes; text is a sequence of parts (an    *)
(* f-string keeps its interpolated values as parts), <<>> the empty text.  *)
(***************************************************************************)
EmptyAxes == [kind |-> "empty", axis |-> "on"]

\* ax.imshow(img, cmap='gray', vmin=0, vmax=255) for a 2-dimensional array,
\* ax.imshow(img) otherwise; then the title and axis('off').
ImageAxes(h, id, title) ==
    IF Len(h[id].shape) = 2
    THEN [kind |-> "image", img |-> id, cmap |-> "gray", vmin |-> 0,
          vmax |-> 255, title |-> title, axis |-> "off"]
    ELSE [kind |-> "image", img |-> id, cmap |-> "default", vmin |-> -1,
          vmax |-> -1, title |-> title, axis |-> "off"]

\* cv_imshow (lines 54-77).  plt.title is called for a non-empty title
\* only; the title of new axes is empty.
cv_imshow(h, f, id, title, figsize) ==
    Outcome(h, f, Returned("cv_imshow", 0, <<>>),
        [figsize |-> figsize, tight |-> TRUE,
         axes |-> << ImageAxes(h, id, IF title # <<>> THEN title ELSE <<>>) >>],
        <<>>)

\* plt.subplots(1, n): one Axes object for n = 1, an array of n Axes for
\* n > 1.  For n = 0 the plotting library raises ValueError (a grid needs a
\* positive number of columns); show_multiple lets it through.
Subplots(n) == [iterable |-> n # 1, list |-> [i \in 1..n |-> EmptyAxes]]

\* The single Axes left as it is.
WrapNever(n, axes) == axes

\* Lines 145-146: the single Axes wrapped into a list.
WrapSingle(n, axes) ==
    IF n = 1 THEN [iterable |-> TRUE, list |-> axes.list] ELSE axes

\* Line 141: the labels synthesized when titles is None.
DefaultTitles(n) == [i \in 1..n |-> <<"Image ", i>>]

Min3(a, b, c) ==
    LET m == IF a < b THEN a ELSE b IN IF m < c THEN m ELSE c

\* Titles that do not match the images refused.
show_multiple_strict(h, f, images, titles, figsize) ==
    IF ~titles.none /\ Len(titles.list) # Len(images)
    THEN Outcome(h, f,
            Raised("show_multiple", "ValueError", <<"titles do not match">>),
            NoFigure, <<>>)
    ELSE Outcome(h, f, Returned("show_multiple", 0, <<>>),
            [figsize |-> figsize, tight |-> TRUE,
             axes |-> [i \in 1..Len(images) |->
                        ImageAxes(h, images[i],
                            IF titles.none THEN DefaultTitles(Len(images))[i]
                            ELSE titles.list[i])]],
            <<>>)

\* show_multiple (lines 129-157).  titles is [none |-> TRUE], or
\* [none |-> FALSE, list |-> the titles].
show_multiple(h, f, images, titles, figsize) ==
    LET n == Len(images)
        ts == IF titles.none THEN DefaultTitles(n) ELSE titles.list
    IN
    IF n = 0
    THEN Outcome(h, f,
            Raised("show_multiple", "ValueError",
                   <<"Number of columns must be a positive integer, not ", n>>),
            NoFigure, <<>>)
    ELSE
    LET axes == WrapSingle(n, Subplots(n)) IN
    IF ~axes.iterable
    THEN Outcome(h, f,
            Raised("show_multiple", "TypeError",
                   <<"'Axes' object is not iterable">>),
            NoFigure, <<>>)
    ELSE
    LET k == Min3(Len(axes.list), Len(images), Len(ts)) IN
    Outcome(h, f, Returned("show_multiple", 0, <<>>),
        [figsize |-> figsize, tight |-> TRUE,
         axes |-> [i \in 1..n |->
                    IF i <= k THEN ImageAxes(h, images[i], ts[i])
                    ELSE axes.list[i]]],
        <<>>)

(***************************************************************************)
(* History of the calls: where the caller stands in the sequence           *)
(* X = cv_imread(path); cv_imwrite(path, X); Y = cv_imread(path).          *)
(* stage 1: X was just read; 2: X was just written back; 3: Y was read.    *)
(***************************************************************************)
NoTrip == [stage |-> 0, path |-> "", flags |-> 0, first |-> 0, second |-> 0]

Latest(r) == IF r.stage = 3 THEN r.second ELSE r.first

AfterRead(r, out, path, flags) ==
    IF out.ret.status # "ok" THEN NoTrip
    ELSE IF r.stage = 2 /\ r.path = path /\ r.flags = flags
    THEN [r EXCEPT !.stage = 3, !.second = out.ret.id]
    ELSE [stage |-> 1, path |-> path, flags |-> flags,
          first |-> out.ret.id, second |-> 0]

AfterWrite(r, path, id) ==
    IF r.stage \in {1, 3} /\ r.path = path /\ Latest(r) = id
    THEN [r EXCEPT !.stage = 2, !.first = id, !.second = 0]
    ELSE NoTrip

(***************************************************************************)
(* The calls a caller can make, and the values it passes.                  *)
(***************************************************************************)
Ids == 1..Len(heap)

Titles == {<<>>, <<"photo">>}

Bins == {256, 4}

ImageLists == UNION {[1..n -> Ids] : n \in 0..MaxImages}

TitleLists ==
    {[none |-> TRUE, list |-> <<>>]} \cup
    {[none |-> FALSE, list |-> [i \in 1..n |-> <<"title ", i>>]] :
        n \in 0..(MaxImages + 1)}

NanCasts(a) ==
    IF SeqMin(a.data) = SeqMax(a.data)
    THEN NanCastResults(Size(a))
    ELSE {[i \in 1..Size(a) |-> 0]}

\* No call is in progress and the caller holds no result of an earlier one.
Idle == Returned("", 0, <<>>)

\* A call runs to its end in one step.  The calls are synchronous: the caller
\* makes one when it is done with the previous one (Proceed).
NoCall ==
    [op |-> "", path |-> "", flags |-> 0, id |-> 0, images |-> <<>>,
     titles |-> [none |-> TRUE, list |-> <<>>], bins |-> 0]

Apply(c, out, r) ==
    /\ ret = Idle
    /\ Len(out.heap) <= MaxArrays
    /\ call' = c
    /\ heap' = out.heap
    /\ fs' = out.fs
    /\ ret' = out.ret
    /\ shown' = out.shown
    /\ printed' = out.printed
    /\ rt' = r

Call_cv_imread ==
    \E path \in Paths, flags \in Flags :
        LET out == cv_imread(heap, fs, path, flags)
        IN  Apply([NoCall EXCEPT !.op = "cv_imread", !.path = path,
                                 !.flags = flags],
                  out, AfterRead(rt, out, path, flags))

Call_cv_grayread ==
    \E path \in Paths :
        LET out == cv_grayread(heap, fs, path)
        IN  Apply([NoCall EXCEPT !.op = "cv_grayread", !.path = path,
                                 !.flags = IMREAD_GRAYSCALE],
                  out, AfterRead(rt, out, path, IMREAD_GRAYSCALE))

Call_cv_imwrite ==
    \E path \in Paths, id \in Ids :
        Apply([NoCall EXCEPT !.op = "cv_imwrite", !.path = path, !.id = id],
              cv_imwrite(heap, fs, path, id), AfterWrite(rt, path, id))

Call_cv_imshow ==
    \E id \in Ids, title \in Titles :
        Apply([NoCall EXCEPT !.op = "cv_imshow", !.id = id],
              cv_imshow(heap, fs, id, title, <<10, 10>>), NoTrip)

Call_show_multiple ==
    \E images \in ImageLists, titles \in TitleLists :
        Apply([NoCall EXCEPT !.op = "show_multiple", !.images = images,
                             !.titles = titles],
              show_multiple(heap, fs, images, titles, <<15, 5>>), NoTrip)

Call_bgr2gray ==
    \E id \in Ids :
        Apply([NoCall EXCEPT !.op = "bgr2gray", !.id = id],
              bgr2gray(heap, fs, id), NoTrip)

Call_rgb2gray ==
    \E id \in Ids :
        Apply([NoCall EXCEPT !.op = "rgb2gray", !.id = id],
              rgb2gray(heap, fs, id), NoTrip)

Call_normalize_image ==
    \E id \in Ids : \E nan \in NanCasts(heap[id]) :
        Apply([NoCall EXCEPT !.op = "normalize_image", !.id = id],
              normalize_image(heap, fs, id, nan), NoTrip)

Call_get_image_stats ==
    \E id \in Ids :
        Apply([NoCall EXCEPT !.op = "get_image_stats", !.id = id],
              get_image_stats(heap, fs, id), NoTrip)

Call_print_image_info ==
    \E id \in Ids :
        Apply([NoCall EXCEPT !.op = "print_image_info", !.id = id],
              print_image_info(heap, fs, id, "Image"), NoTrip)

Call_create_histogram ==
    \E id \in Ids, bins \in Bins :
        Apply([NoCall EXCEPT !.op = "create_histogram", !.id = id,
                             !.bins = bins],
              create_histogram(heap, fs, id, bins), NoTrip)

Call_show_histogram ==
    \E id \in Ids, bins \in Bins :
        Apply([NoCall EXCEPT !.op = "show_histogram", !.id = id,
                             !.bins = bins],
              show_histogram(heap, fs, id, bins, <<"Histogram">>), NoTrip)

\* The caller is done with the result, the figure and the output of the
\* previous call; the module keeps nothing of a call once it has returned.
Proceed ==
    /\ ret # Idle
    /\ call' = NoCall
    /\ ret' = Idle
    /\ shown' = NoFigure
    /\ printed' = <<>>
    /\ UNCHANGED <<heap, fs, rt>>

(***************************************************************************)
(* The images the file can hold to begin with, in native order.            *)
(***************************************************************************)
ColorSamples == {10, 20, 30}

InitialImages ==
    {Arr(<<1, 1, 3>>, "uint8", d) : d \in [1..3 -> ColorSamples]}
    \cup {Arr(<<2, 2>>, "uint8", d) :
            d \in {<<0, 0, 0, 0>>, <<7, 7, 7, 7>>, <<0, 85, 170, 255>>,
                   <<10, 20, 30, 255>>, <<3, 3, 3, 4>>}}
    \cup {Arr(<<1, 2>>, "uint16", <<0, 1000>>),
          Arr(<<1, 2>>, "uint16", <<256, 256>>),
          Arr(<<1, 2, 3>>, "uint8", <<10, 20, 30, 0, 128, 255>>)}

CoreImages ==
    {Arr(<<1, 1, 3>>, "uint8", <<10, 20, 30>>),
     Arr(<<1, 2>>, "uint8", <<7, 7>>),
     Arr(<<1, 2>>, "uint16", <<0, 1000>>)}

InitWith(images) ==
    /\ heap = <<>>
    /\ \E img \in images \cup {NoArray} :
        fs = [p \in Paths |->
                IF p = "img.png" /\ img # NoArray THEN File(img) ELSE NoFile]
    /\ call = NoCall
    /\ ret = Idle
    /\ shown = NoFigure
    /\ printed = <<>>
    /\ rt = NoTrip

Init == InitWith(InitialImages)

InitCore == InitWith(CoreImages)

Next ==
    \/ Call_cv_imread
    \/ Call_cv_grayread
    \/ Call_cv_imwrite
    \/ Call_cv_imshow
    \/ Call_show_multiple
    \/ Call_bgr2gray
    \/ Call_rgb2gray
    \/ Call_normalize_image
    \/ Call_get_image_stats
    \/ Call_print_image_info
    \/ Call_create_histogram
    \/ Call_show_histogram
    \/ Proceed

\* Every call, on the core images.
Spec == InitCore /\ [][Next]_vars

\* Loading and saving.
NextIO == Call_cv_imread \/ Call_cv_grayread \/ Call_cv_imwrite \/ Proceed

SpecIO == Init /\ [][NextIO]_vars

\* Loading and the conversions.
NextConvert ==
    \/ Call_cv_imread
    \/ Call_bgr2gray
    \/ Call_rgb2gray
    \/ Call_normalize_image
    \/ Call_create_histogram
    \/ Proceed

SpecConvert == Init /\ [][NextConvert]_vars

\* Loading and the display.
NextDisplay ==
    \/ Call_cv_imread
    \/ Call_cv_imshow
    \/ Call_show_multiple
    \/ Call_show_histogram
    \/ Proceed

SpecDisplay == InitCore /\ [][NextDisplay]_vars

(***************************************************************************)
(* Properties.                                                             *)
(***************************************************************************)
IsRead == call.op \in {"cv_imread", "cv_grayread"}

\* C1: after X = cv_imread(path), cv_imwrite(path, X) and Y = cv_imread(path)
\* (the same flags), with X 2-dimensional or three-channel, Y equals X: the
\* same shape, element type and samples.
RoundTripExact ==
    (rt.stage = 3 /\ (Ndim(heap[rt.first]) = 2 \/ IsColor3(heap[rt.first])))
        => heap[rt.second] = heap[rt.first]

\* The 1x1 image (10, 20, 30) has made the round trip through the file.
RoundTripWitness ==
    /\ rt.stage = 3
    /\ rt.path = "img.png"
    /\ rt.flags = IMREAD_COLOR
    /\ heap[rt.first] = Arr(<<1, 1, 3>>, "uint8", <<10, 20, 30>>)
    /\ heap[rt.second].data = <<10, 20, 30>>
    /\ fs["img.png"].img.data = <<30, 20, 10>>

\* C2: when cv_imread returns a three-channel array, decoded from the native
\* array X, cv_imwrite would hand exactly X to the codec for it, and the
\* reordering applied twice to X is X.
ChannelOrderRestored ==
    (IsRead /\ ret.status = "ok" /\ IsColor3(heap[ret.id])) =>
        LET X == Imread(fs, call.path, call.flags) IN
            /\ heap[ret.id] = SwapRB(X)
            /\ EncoderInput(heap[ret.id]) = X
            /\ SwapRB(SwapRB(X)) = X

\* A three-channel array with three different channels has been read.
ChannelOrderWitness ==
    /\ call.op = "cv_imread"
    /\ ret.status = "ok"
    /\ IsColor3(heap[ret.id])
    /\ heap[ret.id].data = <<10, 20, 30>>
    /\ Imread(fs, call.path, call.flags).data = <<30, 20, 10>>

ToGrayIdempotent ==
    (call.op \in {"bgr2gray", "rgb2gray"}) =>
        LET again == bgr2gray(heap, fs, ret.id)
            alias == rgb2gray(heap, fs, ret.id)
        IN  /\ ret.status = "ok"
            /\ Ndim(heap[ret.id]) = 2
            /\ again.ret.id = ret.id
            /\ alias.ret.id = ret.id
            /\ again.heap = heap
            /\ alias.heap = heap
            /\ (Ndim(heap[call.id]) = 2 => ret.id = call.id)

\* A three-channel array has been converted.
ToGrayWitness ==
    /\ call.op = "bgr2gray"
    /\ IsColor3(heap[call.id])
    /\ ret.id # call.id
    /\ heap[ret.id].shape = <<1, 1>>

\* A 2-dimensional array has been returned as it is.
ToGrayIdentityWitness ==
    /\ call.op = "rgb2gray"
    /\ Ndim(heap[call.id]) = 2
    /\ ret.id = call.id

\* C5: for an input that is not constant, normalize_image returns an 8-bit
\* array of minimum 0 and maximum 255: the minimum is mapped to 0, the
\* maximum to 255, and the order of the samples is kept.
NormalizeSpansRange ==
    (call.op = "normalize_image"
        /\ SeqMin(heap[call.id].data) # SeqMax(heap[call.id].data)) =>
        LET x == heap[call.id].data
            y == heap[ret.id].data
        IN  /\ ret.status = "ok"
            /\ heap[ret.id].dtype = "uint8"
            /\ heap[ret.id].shape = heap[call.id].shape
            /\ SeqMin(y) = 0
            /\ SeqMax(y) = 255
            /\ \A i \in 1..Len(x) :
                /\ (x[i] = SeqMin(x) => y[i] = 0)
                /\ (x[i] = SeqMax(x) => y[i] = 255)
                /\ \A j \in 1..Len(x) : x[i] <= x[j] => y[i] <= y[j]

\* A 2x2 image with four different samples has been normalized.
NormalizeWitness ==
    /\ call.op = "normalize_image"
    /\ heap[call.id].data = <<10, 20, 30, 255>>
    /\ heap[ret.id].data = <<0, 10, 20, 255>>

RECURSIVE SumOver(_, _)
SumOver(fn, S) ==
    IF S = {} THEN 0
    ELSE LET j == CHOOSE j \in S : TRUE IN fn[j] + SumOver(fn, S \ {j})

CountsSum(h) == SumOver(h.hist, DOMAIN h.hist)

\* C6 as stated: for any image, the 256 counts sum to the number of samples.
HistogramCountsEverySample ==
    (call.op = "create_histogram" /\ call.bins = 256) =>
        CountsSum(ret.val) = Size(heap[call.id])

\* C6: for an image whose samples all lie in [0, 256], the 256 counts sum to
\* the number of samples, and every bucket index lies in 1..256.
HistogramCountsSamplesInRange ==
    (call.op = "create_histogram" /\ call.bins = 256
        /\ \A i \in 1..Size(heap[call.id]) :
            0 <= heap[call.id].data[i] /\ heap[call.id].data[i] <= 256) =>
        /\ CountsSum(ret.val) = Size(heap[call.id])
        /\ DOMAIN ret.val.hist \subseteq 1..256

\* The histogram of an image with samples on the last edge has been taken.
HistogramWitness ==
    /\ call.op = "create_histogram"
    /\ call.bins = 256
    /\ heap[call.id].data = <<256, 256>>
    /\ ret.val.hist[256] = 2

\* C7: with titles omitted and N >= 1 images, show_multiple raises nothing
\* and presents N axes in a row, the i-th showing the i-th image under the
\* label "Image i"; the single Axes of N = 1 is made iterable.
ShowMultipleDefaultTitles ==
    (call.op = "show_multiple" /\ call.titles.none /\ Len(call.images) >= 1) =>
        LET n == Len(call.images) IN
            /\ ret.status = "ok"
            /\ Len(shown.axes) = n
            /\ \A i \in 1..n :
                /\ shown.axes[i].kind = "image"
                /\ shown.axes[i].img = call.images[i]
                /\ shown.axes[i].title = <<"Image ", i>>
            /\ (n = 1 => WrapSingle(n, Subplots(n)).iterable)

\* One image has been shown with its label synthesized.
ShowSingleWitness ==
    /\ call.op = "show_multiple"
    /\ call.titles.none
    /\ Len(call.images) = 1
    /\ ~Subplots(1).iterable
    /\ ret.status = "ok"
    /\ shown.axes[1].title = <<"Image ", 1>>

DrawnAxes == {i \in 1..Len(shown.axes) : shown.axes[i].kind = "image"}

ZipsToShorter ==
    LET n == Len(call.images)
        t == Len(call.titles.list)
        k == IF n < t THEN n ELSE t
    IN  /\ ret.status = "ok"
        /\ DrawnAxes = 1..k
        /\ \A i \in 1..k :
            /\ shown.axes[i].img = call.images[i]
            /\ shown.axes[i].title = call.titles.list[i]

MismatchedTitles ==
    /\ call.op = "show_multiple"
    /\ ~call.titles.none
    /\ Len(call.titles.list) # Len(call.images)

\* C8 as stated: titles of another length than the images raise no error;
\* the first min(len(images), len(titles)) images are drawn, each under the
\* title of its position.
MismatchZipsToShorter == MismatchedTitles => ZipsToShorter

\* C8: the same, for at least one image.
MismatchZipsToShorterNonEmpty ==
    (MismatchedTitles /\ Len(call.images) >= 1) => ZipsToShorter

\* Two images have been shown with one title: the second image is not drawn.
MismatchWitness ==
    /\ MismatchedTitles
    /\ Len(call.images) = 2
    /\ Len(call.titles.list) = 1
    /\ ret.status = "ok"
    /\ DrawnAxes = {1}

\* C9: no call changes an array that exists: its shape, element type and
\* samples are the same after the call, under the same identity.
InputsNeverMutated ==
    [][\A i \in 1..Len(heap) : i <= Len(heap') /\ heap'[i] = heap[i]]_vars

\* normalize_image has left its result in another array than its input.
NotMutatedWitness ==
    /\ call.op = "normalize_image"
    /\ ret.status = "ok"
    /\ ret.id # call.id
    /\ heap[ret.id].data # heap[call.id].data

\* C10: for a constant input normalize_image raises nothing and returns an
\* 8-bit array of the input's shape.
NormalizeConstantUnguarded ==
    (call.op = "normalize_image"
        /\ SeqMin(heap[call.id].data) = SeqMax(heap[call.id].data)) =>
        /\ ret.status = "ok"
        /\ ret.id # call.id
        /\ heap[ret.id].dtype = "uint8"
        /\ heap[ret.id].shape = heap[call.id].shape

\* The 2x2 all-zero image has been normalized, and the result does not span
\* 0 to 255.
NormalizeConstantWitness ==
    /\ call.op = "normalize_image"
    /\ heap[call.id] = Arr(<<2, 2>>, "uint8", <<0, 0, 0, 0>>)
    /\ ret.status = "ok"
    /\ ~(SeqMin(heap[ret.id].data) = 0 /\ SeqMax(heap[ret.id].data) = 255)

====
